---- MODULE Spec2Model ----
(***************************************************************************)
(* A model of the scantron grading core (src/scantron/types.py).           *)
(*                                                                         *)
(* Texts are sequences of one-character strings.  A call that returns is   *)
(* the record [exc |-> "", val |-> v]; a call that raises is [exc |-> e].  *)
(* Floats are modelled by exact rationals <<numerator, denominator>>.      *)
(***************************************************************************)
EXTENDS Integers, Sequences, FiniteSets, TLC

VARIABLES
    Grader_keys,   \* the class attribute Grader._keys (one list for the class)
    graders,       \* the Graders constructed so far: the key list each was given
    call           \* the last call made: its operation, arguments and outcome

vars == <<Grader_keys, graders, call>>

\* ---------------------------------------------------------------- bounds

MaxLen == 3          \* longest Response text
MaxRubricLen == 5    \* longest Rubric text
MaxItems == 2        \* most alternatives of a directly constructed Rubric
MaxFields == 2       \* most question fields of a row, questions of a Key
MaxBubbles == 2      \* the bubbles that directly constructed Rubrics use
MaxKeys == 2         \* most keys handed to one Grader construction
MaxGraders == 2      \* most Graders alive at once
MaxScantrons == 2    \* most scantrons handed to one grade_all

\* ---------------------------------------------------------------- outcomes

Ok(v) == [exc |-> "", val |-> v]
Raise(e) == [exc |-> e]
Returned(r) == r.exc = ""

\* the outcome of a call that was made and has not finished
Pending == [exc |-> "pending"]
Finished(r) == r.exc # "pending"

\* the four assertions of the program, by their messages
MultipleKeys == Raise("AssertionError: Cannot have multiple keys for form")
KeyNotFound == Raise("AssertionError: Key for form not found")
FormMismatch == Raise("AssertionError: Cannot grade a Scantron with form using Key with form")
CountMismatch == Raise("AssertionError: Cannot grade a Scantron with responses using Key with questions")

\* ---------------------------------------------------------------- rationals

Abs(n) == IF n < 0 THEN -n ELSE n

RECURSIVE Gcd(_, _)
Gcd(a, b) == IF b = 0 THEN a ELSE Gcd(b, a % b)

\* the rational n/d in lowest terms with a positive denominator
Rat(n, d) ==
    LET s == IF d < 0 THEN -1 ELSE 1
        g == Gcd(Abs(n), Abs(d))
    IN <<(s * n) \div g, (s * d) \div g>>

RatInt(n) == <<n, 1>>
RatMul(a, b) == Rat(a[1] * b[1], a[2] * b[2])
RatAdd(a, b) == Rat(a[1] * b[2] + b[1] * a[2], a[2] * b[2])
RatLess(a, b) == a[1] * b[2] < b[1] * a[2]
RatLeq(a, b) == a[1] * b[2] <= b[1] * a[2]

RECURSIVE Pow10(_)
Pow10(k) == IF k = 0 THEN 1 ELSE 10 * Pow10(k - 1)

\* ---------------------------------------------------------------- texts

TextsOver(alphabet, n) == UNION {[1..k -> alphabet] : k \in 0..n}

DigitChars == <<"0", "1", "2", "3", "4", "5", "6", "7", "8", "9">>

\* a character the pattern \d matches
IsDigit(c) == \E i \in 1..Len(DigitChars) : DigitChars[i] = c

DigitValue(c) == (CHOOSE i \in 1..Len(DigitChars) : DigitChars[i] = c) - 1

\* str.isdigit: not empty, and every character a digit
isdigit(value) == Len(value) > 0 /\ \A i \in 1..Len(value) : IsDigit(value[i])

\* int() of a string of digits
RECURSIVE IntOfDigits(_)
IntOfDigits(s) ==
    IF Len(s) = 0 THEN 0
    ELSE 10 * IntOfDigits(SubSeq(s, 1, Len(s) - 1)) + DigitValue(s[Len(s)])

\* ---------------------------------------------------------------- Bubble

BUBBLES == <<"A", "B", "C", "D", "E">>

BubbleValues == {BUBBLES[i] : i \in 1..Len(BUBBLES)}

\* the position of a bubble's value in the order of the values
BubbleIndex(b) == CHOOSE i \in 1..Len(BUBBLES) : BUBBLES[i] = b

\* Bubble.parse: chr(ord('A') + int(value) - 1) is a Bubble only for 1..5, and
\* Bubble(value) only for the five letters; anything else is a ValueError
Bubble_parse(value) ==
    IF isdigit(value)
    THEN LET n == IntOfDigits(value)
         IN IF n \in 1..Len(BUBBLES) THEN Ok(BUBBLES[n]) ELSE Raise("ValueError")
    ELSE IF Len(value) = 1 /\ value[1] \in BubbleValues
         THEN Ok(value[1])
         ELSE Raise("ValueError")

\* ---------------------------------------------------------------- Response

\* sorted(choices, key=lambda b: b.value): a stable sort, duplicates kept
sorted_by_value(choices) ==
    LET RECURSIVE Upto(_)
        Upto(i) ==
            IF i = 0 THEN <<>>
            ELSE LET Is(b) == b = BUBBLES[i]
                 IN Upto(i - 1) \o SelectSeq(choices, Is)
    IN Upto(Len(BUBBLES))

\* Response.__init__: the bubbles, sorted
Response(choices) == sorted_by_value(choices)

\* Response.bubble_set
bubble_set(response) == {response[i] : i \in 1..Len(response)}

\* a list of the members of a set; the order of a Python set is not the order
\* of the values, so the list is taken in descending order here (Response
\* sorts it whatever it is)
RECURSIVE ListOfSet(_)
ListOfSet(S) ==
    IF S = {} THEN <<>>
    ELSE LET top == CHOOSE b \in S : \A c \in S : BubbleIndex(c) <= BubbleIndex(b)
         IN <<top>> \o ListOfSet(S \ {top})

\* list([...]) where the code has list(set([...]))
list_keeping_duplicates(bubbles) == bubbles

\* list(set([...])) of Response.parse
list_set(bubbles) == ListOfSet({bubbles[i] : i \in 1..Len(bubbles)})

\* re.sub(r'[^\dA-E]', '', value): the digits and the letters A-E are kept
KeptByPattern(value) ==
    LET Keep(c) == IsDigit(c) \/ c \in BubbleValues
    IN SelectSeq(value, Keep)

\* Response.parse
Response_parse(value) ==
    LET kept == KeptByPattern(value)
        parsed == [i \in 1..Len(kept) |-> Bubble_parse(<<kept[i]>>)]
    IN IF \E i \in 1..Len(kept) : ~Returned(parsed[i])
       THEN Raise("ValueError")
       ELSE Ok(Response(list_set([i \in 1..Len(kept) |-> parsed[i].val])))

\* ---------------------------------------------------------------- Response.parse alone

ResponseAlphabet == {"A", "1", "C", "2", ","}

ResponseTexts == TextsOver(ResponseAlphabet, MaxLen)

\* a run makes one call: Init draws its arguments, the action is the call
InitResponse ==
    /\ Grader_keys = <<>>
    /\ graders = <<>>
    /\ \E value \in ResponseTexts :
          call = [op |-> "Response.parse", value |-> value, ret |-> Pending]

ResponseParse ==
    /\ call.op = "Response.parse"
    /\ call.ret = Pending
    /\ call' = [call EXCEPT !.ret = Response_parse(call.value)]
    /\ UNCHANGED <<Grader_keys, graders>>

NextResponse == ResponseParse

ResponseSpec == InitResponse /\ [][NextResponse]_vars

\* the bubbles a text names: a letter A-E, or a digit 1-5 for the letter at
\* that position
BubblesNamed(value) ==
    {b \in BubbleValues :
        \E i \in 1..Len(value) :
            \/ value[i] = b
            \/ value[i] = DigitChars[BubbleIndex(b) + 1]}

NamesOnlyBubbles(value) ==
    \A i \in 1..Len(value) : IsDigit(value[i]) => DigitValue(value[i]) \in 1..Len(BUBBLES)

\* C6: Response.parse depends only on the set of bubbles the text names: two
\* texts naming the same set, whatever their order, repetitions, punctuation
\* and mix of digits and letters, parse to equal Responses, and the bubbles
\* returned have no duplicates and are in the order A, B, C, D, E.
C6_ParseDependsOnlyOnBubbleSet ==
    (call.op = "Response.parse" /\ Finished(call.ret) /\ NamesOnlyBubbles(call.value)) =>
        /\ Returned(call.ret)
        /\ \A i, j \in 1..Len(call.ret.val) :
              i < j => BubbleIndex(call.ret.val[i]) < BubbleIndex(call.ret.val[j])
        /\ bubble_set(call.ret.val) = BubblesNamed(call.value)
        /\ \A other \in ResponseTexts :
              BubblesNamed(other) = BubblesNamed(call.value) =>
                  Response_parse(other) = call.ret

\* a text with a repeated bubble in both notations, out of order
C6_Witness ==
    /\ call.op = "Response.parse"
    /\ call.value = <<"C", "1", "A">>
    /\ call.ret = Ok(<<"A", "C">>)

\* ---------------------------------------------------------------- RubricItem

RubricItem(correct_response, partial_credit) ==
    [correct_response |-> correct_response, partial_credit |-> partial_credit]

\* RubricItem.parse: a leading P marks partial credit, the rest is a Response
RubricItem_parse(value) ==
    LET is_partial == Len(value) > 0 /\ value[1] = "P"
        response_str == IF is_partial THEN Tail(value) ELSE value
        response == Response_parse(response_str)
    IN IF Returned(response)
       THEN Ok(RubricItem(response.val, is_partial))
       ELSE response

\* RubricItem.grade returning score where the code returns max(0, score)
grade_without_clamp(item, response) ==
    LET correct_bubbles == bubble_set(item.correct_response)
        response_bubbles == bubble_set(response)
    IN IF item.partial_credit
       THEN IF Cardinality(correct_bubbles) = 0
            THEN Raise("ZeroDivisionError")
            ELSE Ok(Rat(Cardinality(correct_bubbles \cap response_bubbles)
                          - Cardinality(response_bubbles \ correct_bubbles),
                        Cardinality(correct_bubbles)))
       ELSE Ok(RatInt(IF correct_bubbles = response_bubbles THEN 1 ELSE 0))

\* RubricItem.grade: the division by len(correct_bubbles) raises when the
\* correct set is empty; max(0, score) keeps score only when it is above 0
RubricItem_grade(item, response) ==
    LET correct_bubbles == bubble_set(item.correct_response)
        response_bubbles == bubble_set(response)
    IN IF item.partial_credit
       THEN LET num_correct == Cardinality(correct_bubbles \cap response_bubbles)
                num_wrong == Cardinality(response_bubbles \ correct_bubbles)
            IN IF Cardinality(correct_bubbles) = 0
               THEN Raise("ZeroDivisionError")
               ELSE LET score == Rat(num_correct - num_wrong, Cardinality(correct_bubbles))
                    IN Ok(IF RatLess(RatInt(0), score) THEN score ELSE RatInt(0))
       ELSE Ok(RatInt(IF correct_bubbles = response_bubbles THEN 1 ELSE 0))

\* ---------------------------------------------------------------- Rubric

Rubric(rubric_items, points, extra_credit) ==
    [items |-> rubric_items, points |-> points, extra_credit |-> extra_credit]

\* str.split(sep): the pieces between the separators, empty pieces kept
RECURSIVE split_on(_, _)
split_on(s, sep) ==
    IF \A i \in 1..Len(s) : s[i] # sep THEN <<s>>
    ELSE LET k == CHOOSE i \in 1..Len(s) :
                      s[i] = sep /\ \A j \in 1..(i - 1) : s[j] # sep
         IN <<SubSeq(s, 1, k - 1)>> \o split_on(SubSeq(s, k + 1, Len(s)), sep)

\* str.split(): the pieces between runs of whitespace, no empty piece
split(s) ==
    LET NotEmpty(piece) == Len(piece) > 0
    IN SelectSeq(split_on(s, " "), NotEmpty)

\* the value of digits after a decimal point: 0.d1d2...
Fraction(s) == Rat(IntOfDigits(s), Pow10(Len(s)))

AllDigits(s) == \A i \in 1..Len(s) : IsDigit(s[i])

\* float() of digits with at most one point
ParseDecimal(s) ==
    LET dots == split_on(s, ".")
    IN IF Len(dots) = 1 /\ isdigit(s)
       THEN Ok(RatInt(IntOfDigits(s)))
       ELSE IF /\ Len(dots) = 2
               /\ AllDigits(dots[1]) /\ AllDigits(dots[2])
               /\ Len(dots[1]) + Len(dots[2]) > 0
            THEN Ok(RatAdd(RatInt(IntOfDigits(dots[1])), Fraction(dots[2])))
            ELSE Raise("ValueError")

\* float(): a decimal, or a decimal, an E and the digits of an exponent
float(s) ==
    LET exps == split_on(s, "E")
    IN IF Len(exps) = 1 THEN ParseDecimal(s)
       ELSE IF Len(exps) = 2 /\ isdigit(exps[2]) /\ Returned(ParseDecimal(exps[1]))
            THEN Ok(RatMul(ParseDecimal(exps[1]).val, RatInt(Pow10(IntOfDigits(exps[2])))))
            ELSE Raise("ValueError")

\* Rubric.parse
Rubric_parse(value) ==
    LET parts == split(value)
    IN IF Len(parts) = 0 THEN Raise("IndexError")
       ELSE
       LET extra_credit == parts[Len(parts)] = <<"E">>
           is_points_first == Len(parts) = 3 \/ (Len(parts) = 2 /\ ~extra_credit)
           points == IF is_points_first THEN float(parts[1]) ELSE Ok(RatInt(1))
           texts == split_on(parts[IF is_points_first THEN 2 ELSE 1], "|")
           items == [i \in 1..Len(texts) |-> RubricItem_parse(texts[i])]
       IN IF ~Returned(points) THEN points
          ELSE IF \E i \in 1..Len(texts) : ~Returned(items[i])
               THEN Raise("ValueError")
               ELSE Ok(Rubric([i \in 1..Len(texts) |-> items[i].val],
                              points.val, extra_credit))

\* max() of a list of grades that is not empty
RECURSIVE RatMax(_)
RatMax(s) ==
    IF Len(s) = 1 THEN s[1]
    ELSE LET rest == RatMax(Tail(s))
         IN IF RatLess(s[1], rest) THEN rest ELSE s[1]

\* Rubric.grade: the best of the items' grades, times the points
Rubric_grade(rubric, response) ==
    LET grades == [i \in 1..Len(rubric.items) |->
                      RubricItem_grade(rubric.items[i], response)]
    IN IF \E i \in 1..Len(grades) : ~Returned(grades[i])
       THEN Raise("ZeroDivisionError")
       ELSE IF Len(grades) = 0 THEN Raise("ValueError")
       ELSE Ok(<<RatMul(rubric.points, RatMax([i \in 1..Len(grades) |-> grades[i].val])),
                 IF rubric.extra_credit THEN RatInt(0) ELSE rubric.points>>)

\* ---------------------------------------------------------------- Rubric.parse alone

RubricAlphabet == {"2", "A", "E", "P", "|", " ", "."}

RubricTexts == TextsOver(RubricAlphabet, MaxRubricLen)

InitRubricParse ==
    /\ Grader_keys = <<>>
    /\ graders = <<>>
    /\ \E value \in RubricTexts :
          call = [op |-> "Rubric.parse", value |-> value, ret |-> Pending]

RubricParse ==
    /\ call.op = "Rubric.parse"
    /\ call.ret = Pending
    /\ call' = [call EXCEPT !.ret = Rubric_parse(call.value)]
    /\ UNCHANGED <<Grader_keys, graders>>

NextRubricParse == RubricParse

RubricParseSpec == InitRubricParse /\ [][NextRubricParse]_vars

\* a RubricItem expression of the grammar: an optional P, then one or more of
\* the letters A-E and the digits 1-5
IsItemExpression(text) ==
    LET body == IF Len(text) > 0 /\ text[1] = "P" THEN Tail(text) ELSE text
    IN /\ Len(body) > 0
       /\ \A i \in 1..Len(body) :
             \/ body[i] \in BubbleValues
             \/ IsDigit(body[i]) /\ DigitValue(body[i]) \in 1..Len(BUBBLES)

\* an item sequence of the grammar: item expressions separated by |
IsItemSequence(token) ==
    \A i \in 1..Len(split_on(token, "|")) : IsItemExpression(split_on(token, "|")[i])

\* the points of the grammar: digits with at most one decimal point
IsNumber(token) ==
    /\ \A i \in 1..Len(token) : IsDigit(token[i]) \/ token[i] = "."
    /\ Returned(ParseDecimal(token))

\* the ways a text reads as   [points] item_sequence ['E']
Readings(value) ==
    LET tokens == split(value)
    IN {r \in [points : BOOLEAN, E : BOOLEAN] :
          LET first == IF r.points THEN 2 ELSE 1
              count == first + (IF r.E THEN 1 ELSE 0)
          IN /\ Len(tokens) = count
             /\ r.points => IsNumber(tokens[1])
             /\ IsItemSequence(tokens[first])
             /\ r.E => tokens[count] = <<"E">>}

\* the RubricItem an item expression stands for
ItemOf(text) ==
    LET partial == text[1] = "P"
    IN RubricItem(sorted_by_value(ListOfSet(BubblesNamed(IF partial THEN Tail(text) ELSE text))),
                  partial)

\* the Rubric a reading of a text stands for
RubricOf(value, r) ==
    LET tokens == split(value)
        texts == split_on(tokens[IF r.points THEN 2 ELSE 1], "|")
    IN Rubric([i \in 1..Len(texts) |-> ItemOf(texts[i])],
              IF r.points THEN ParseDecimal(tokens[1]).val ELSE RatInt(1),
              r.E)

\* C5: for every text  [points] item_sequence ['E'], the item sequence being
\* one or more RubricItem expressions separated by | (the single letter E
\* among them), Rubric.parse returns the Rubric with the leading number as
\* points (1.0 without one), the items of the sequence in order, and
\* extra_credit true exactly when an E token follows the item sequence.
C5_ParseFollowsGrammar ==
    (call.op = "Rubric.parse" /\ Finished(call.ret)) =>
        \A r \in Readings(call.value) : call.ret = Ok(RubricOf(call.value, r))

\* ---------------------------------------------------------------- Scantron, Key

Scantron(student, form, responses) ==
    [student |-> student, form |-> form, responses |-> responses]

Key(form, questions) == [form |-> form, questions |-> questions]

\* sum() of a list of numbers
RECURSIVE RatSum(_)
RatSum(s) == IF Len(s) = 0 THEN RatInt(0) ELSE RatAdd(s[1], RatSum(Tail(s)))

\* Key.grade: tuple(map(sum, zip(*scorings))) is the empty tuple when there
\* is no scoring, the pair of the two sums otherwise
Key_grade(key, scantron) ==
    IF scantron.form # key.form THEN FormMismatch
    ELSE IF Len(scantron.responses) # Len(key.questions) THEN CountMismatch
    ELSE
    LET scorings == [i \in 1..Len(key.questions) |->
                        Rubric_grade(key.questions[i], scantron.responses[i])]
    IN IF \E i \in 1..Len(scorings) : ~Returned(scorings[i])
       THEN scorings[CHOOSE i \in 1..Len(scorings) :
                        /\ ~Returned(scorings[i])
                        /\ \A j \in 1..(i - 1) : Returned(scorings[j])]
       ELSE IF Len(scorings) = 0 THEN Ok(<<>>)
       ELSE Ok(<<RatSum([i \in 1..Len(scorings) |-> scorings[i].val[1]]),
                 RatSum([i \in 1..Len(scorings) |-> scorings[i].val[2]])>>)

\* ---------------------------------------------------------------- Grader

ScantronGrade(student, form, points, out_of) ==
    [student |-> student, form |-> form, points |-> points, out_of |-> out_of]

\* [k.form for k in self.keys]
FormsOf(keys) == {keys[i].form : i \in 1..Len(keys)}

\* add_key without its assertion
add_key_unchecked(keys, key) == Ok(Append(keys, key))

\* add_key of Grader.__init__, on the list self.keys names
add_key(keys, key) ==
    IF key.form \in FormsOf(keys) THEN MultipleKeys ELSE Ok(Append(keys, key))

\* the loop of Grader.__init__ from the list self.keys names: the list after
\* it, and whether an assertion ended it; the keys added before the assertion
\* stay in the list
RECURSIVE add_keys(_, _)
add_keys(list, keys) ==
    IF Len(keys) = 0 THEN [list |-> list, ret |-> Ok(<<>>)]
    ELSE LET added == add_key(list, keys[1])
         IN IF Returned(added)
            THEN add_keys(added.val, Tail(keys))
            ELSE [list |-> list, ret |-> added]

\* Grader._find_key
find_key(keys, form) ==
    IF \E i \in 1..Len(keys) : keys[i].form = form
    THEN Ok(keys[CHOOSE i \in 1..Len(keys) :
                    /\ keys[i].form = form
                    /\ \A j \in 1..(i - 1) : keys[j].form # form])
    ELSE KeyNotFound

\* Grader.grade on a Grader whose keys property gives the list keys;
\* points, out_of = ... raises a ValueError on a tuple that is not a pair
Grader_grade(keys, scantron) ==
    LET key == find_key(keys, scantron.form)
    IN IF ~Returned(key) THEN key
       ELSE LET totals == Key_grade(key.val, scantron)
            IN IF ~Returned(totals) THEN totals
               ELSE IF Len(totals.val) # 2 THEN Raise("ValueError")
               ELSE Ok(ScantronGrade(scantron.student, scantron.form,
                                     totals.val[1], totals.val[2]))

\* Grader.grade_all: the grades in order, or what the first failing grade raised
Grader_grade_all(keys, scantrons) ==
    LET grades == [i \in 1..Len(scantrons) |-> Grader_grade(keys, scantrons[i])]
    IN IF \E i \in 1..Len(grades) : ~Returned(grades[i])
       THEN grades[CHOOSE i \in 1..Len(grades) :
                      /\ ~Returned(grades[i])
                      /\ \A j \in 1..(i - 1) : Returned(grades[j])]
       ELSE Ok([i \in 1..Len(grades) |-> grades[i].val])

\* ---------------------------------------------------------------- grading alone

SeqsOver(S, lo, hi) == UNION {[1..k -> S] : k \in lo..hi}

\* every Response there is: a set of bubbles, in order
AllResponses == {sorted_by_value(ListOfSet(S)) : S \in SUBSET BubbleValues}

AllItems == {RubricItem(r, p) : r \in AllResponses, p \in BOOLEAN}

\* the Responses, items and Rubrics over the first MaxBubbles bubbles
FewResponses ==
    {sorted_by_value(ListOfSet(S)) : S \in SUBSET {BUBBLES[i] : i \in 1..MaxBubbles}}

FewItems == {RubricItem(r, p) : r \in FewResponses, p \in BOOLEAN}

SomePoints == {<<-1, 1>>, <<0, 1>>, <<1, 2>>, <<1, 1>>, <<3, 2>>}

FewRubrics ==
    {Rubric(items, points, extra) :
        items \in SeqsOver(FewItems, 1, MaxItems), points \in SomePoints, extra \in BOOLEAN}

\* the Rubrics of the examples in Rubric.parse's documentation, and two with an
\* item that names no bubble
ExampleRubrics ==
    {Rubric_parse(text).val : text \in {
        <<"A">>,
        <<"P", "A", "B">>,
        <<"A", " ", "E">>,
        <<"1", ".", "5", " ", "A", "B", "C">>,
        <<"0", ".", "5", " ", "B", "C", "D">>,
        <<"1", " ", "P", "B", "A", "C">>,
        <<"1", " ", "P", "A", "B", "C", "|", "A", "B", "D">>,
        <<"P">>,
        <<"|", "A">>}}

Forms == {"A", "B"}

SomeStudent == [name |-> <<"W", " ", "A">>, sid |-> <<"1">>]

SomeKeys == {Key(form, questions) :
                form \in Forms, questions \in SeqsOver(ExampleRubrics, 0, MaxFields)}

SomeScantrons ==
    {Scantron(SomeStudent, form, responses) :
        form \in Forms,
        responses \in SeqsOver({<<>>, <<"A">>, <<"A", "B">>, <<"A", "B", "C">>}, 0, MaxFields)}

InitGrade ==
    /\ Grader_keys = <<>>
    /\ graders = <<>>
    /\ \/ \E item \in AllItems, response \in AllResponses :
             call = [op |-> "RubricItem.grade", item |-> item, response |-> response,
                     ret |-> Pending]
       \/ \E rubric \in FewRubrics, response \in FewResponses :
             call = [op |-> "Rubric.grade", rubric |-> rubric, response |-> response,
                     ret |-> Pending]
       \/ \E key \in SomeKeys, scantron \in SomeScantrons :
             call = [op |-> "Key.grade", key |-> key, scantron |-> scantron,
                     ret |-> Pending]

ItemGrade ==
    /\ call.op = "RubricItem.grade"
    /\ call.ret = Pending
    /\ call' = [call EXCEPT !.ret = RubricItem_grade(call.item, call.response)]
    /\ UNCHANGED <<Grader_keys, graders>>

RubricGrade ==
    /\ call.op = "Rubric.grade"
    /\ call.ret = Pending
    /\ call' = [call EXCEPT !.ret = Rubric_grade(call.rubric, call.response)]
    /\ UNCHANGED <<Grader_keys, graders>>

KeyGrade ==
    /\ call.op = "Key.grade"
    /\ call.ret = Pending
    /\ call' = [call EXCEPT !.ret = Key_grade(call.key, call.scantron)]
    /\ UNCHANGED <<Grader_keys, graders>>

NextGrade == ItemGrade \/ RubricGrade \/ KeyGrade

GradeSpec == InitGrade /\ [][NextGrade]_vars

\* C7: for a RubricItem with a correct set C that is not empty and a Response
\* R, RubricItem.grade returns, in exact mode, 1 if R's bubbles are C and 0
\* otherwise, and in partial-credit mode max(0, (|R & C| - |R \ C|) / |C|):
\* 0, never less, when R has as many wrong as correct bubbles or none at all.
C7_ItemGradeFormula ==
    (/\ call.op = "RubricItem.grade"
     /\ Finished(call.ret)
     /\ call.item.correct_response # <<>>) =>
        LET C == bubble_set(call.item.correct_response)
            R == bubble_set(call.response)
            right == Cardinality(R \cap C)
            wrong == Cardinality(R \ C)
        IN /\ Returned(call.ret)
           /\ ~call.item.partial_credit =>
                 call.ret.val = RatInt(IF R = C THEN 1 ELSE 0)
           /\ call.item.partial_credit =>
                 /\ call.ret.val[2] > 0
                 /\ call.ret.val[1] * Cardinality(C) =
                       call.ret.val[2] * (IF right > wrong THEN right - wrong ELSE 0)
                 /\ wrong >= right => call.ret.val = RatInt(0)
                 /\ call.ret.val[1] >= 0

\* a partial-credit item graded on a response with more wrong bubbles than right
C7_Witness ==
    /\ call.op = "RubricItem.grade"
    /\ call.item = RubricItem(<<"A", "B", "C">>, TRUE)
    /\ call.response = <<"A", "D", "E">>
    /\ call.ret = Ok(RatInt(0))

\* C8: for every Rubric of one or more items and every Response R, Rubric.grade
\* returns (points x the largest item.grade(R), out_of), out_of being the
\* points, or 0 for extra credit; the points earned are never below points x
\* the grade of any one item.
C8_RubricGradeIsBestItem ==
    (call.op = "Rubric.grade" /\ Finished(call.ret) /\ Len(call.rubric.items) >= 1) =>
        LET rubric == call.rubric
            grades == [i \in 1..Len(rubric.items) |->
                          RubricItem_grade(rubric.items[i], call.response)]
        IN /\ Returned(call.ret)
           /\ \A i \in 1..Len(grades) : Returned(grades[i])
           /\ \E i \in 1..Len(grades) :
                 /\ call.ret.val[1] = RatMul(rubric.points, grades[i].val)
                 /\ \A j \in 1..Len(grades) : RatLeq(grades[j].val, grades[i].val)
           /\ call.ret.val[2] = IF rubric.extra_credit THEN RatInt(0) ELSE rubric.points
           /\ \A j \in 1..Len(grades) :
                 RatLeq(RatMul(rubric.points, grades[j].val), call.ret.val[1])

\* C10: for a Key and a Scantron of the same form with as many questions as
\* responses, none included, Key.grade returns the pair of the sums of the
\* points earned and of the out_of of questions[i].grade(responses[i]), and
\* Grader.grade wraps that pair with the scantron's student and form into a
\* ScantronGrade; with different forms or counts Key.grade fails with an
\* assertion.
C10_KeyGradeSumsQuestions ==
    (call.op = "Key.grade" /\ Finished(call.ret)) =>
        LET key == call.key
            scantron == call.scantron
            N == Len(key.questions)
        IN IF scantron.form = key.form /\ Len(scantron.responses) = N
           THEN LET scorings == [i \in 1..N |->
                                    Rubric_grade(key.questions[i], scantron.responses[i])]
                    points == RatSum([i \in 1..N |-> scorings[i].val[1]])
                    out_of == RatSum([i \in 1..N |-> scorings[i].val[2]])
                IN (\A i \in 1..N : Returned(scorings[i])) =>
                      /\ call.ret = Ok(<<points, out_of>>)
                      /\ Grader_grade(<<key>>, scantron) =
                            Ok(ScantronGrade(scantron.student, scantron.form, points, out_of))
           ELSE call.ret \in {FormMismatch, CountMismatch}

\* the texts of RubricItem expressions: an optional P and a Response expression
ItemTexts == TextsOver({"P", "A", "2", ","}, MaxLen)

\* C9: for every RubricItem that RubricItem.parse returns (for a text that
\* names no bubble too) and every Response, RubricItem.grade returns a value
\* between 0 and 1.
C9_ItemGradeReturnsInUnitInterval ==
    (/\ call.op = "RubricItem.grade"
     /\ Finished(call.ret)
     /\ \E text \in ItemTexts : RubricItem_parse(text) = Ok(call.item)) =>
        /\ Returned(call.ret)
        /\ RatLeq(RatInt(0), call.ret.val)
        /\ RatLeq(call.ret.val, RatInt(1))

\* ---------------------------------------------------------------- rows

\* str.strip(): the text without its leading and trailing spaces
RECURSIVE strip(_)
strip(s) ==
    IF Len(s) > 0 /\ s[1] = " " THEN strip(Tail(s))
    ELSE IF Len(s) > 0 /\ s[Len(s)] = " " THEN strip(SubSeq(s, 1, Len(s) - 1))
    ELSE s

\* " ".join(pieces)
RECURSIVE join(_)
join(pieces) ==
    IF Len(pieces) = 0 THEN <<>>
    ELSE IF Len(pieces) = 1 THEN pieces[1]
    ELSE pieces[1] \o <<" ">> \o join(Tail(pieces))

\* Student.__init__
Student(name, sid) == [name |-> join(split(strip(name))), sid |-> strip(sid)]

\* int() of a text: digits, after a minus sign or not
int(s) ==
    IF isdigit(s) THEN Ok(IntOfDigits(s))
    ELSE IF Len(s) > 1 /\ s[1] = "-" /\ isdigit(Tail(s)) THEN Ok(-IntOfDigits(Tail(s)))
    ELSE Raise("ValueError")

\* a slice bound as Python places it in a list of n elements
SliceBound(i, n) ==
    IF i < 0 THEN (IF i + n < 0 THEN 0 ELSE i + n)
    ELSE (IF i > n THEN n ELSE i)

\* row[start:stop]: a slice never raises; it is cut to the elements there are
slice(row, start, stop) ==
    SubSeq(row, SliceBound(start, Len(row)) + 1, SliceBound(stop, Len(row)))

\* Scantron.parse: row[3] raises on a row of fewer than four fields; the
\* student, the form and the responses are evaluated in that order
Scantron_parse(row) ==
    IF Len(row) < 4 THEN Raise("IndexError")
    ELSE
    LET num_questions == int(row[4])
    IN IF ~Returned(num_questions) THEN num_questions
       ELSE
       LET form == Bubble_parse(row[1])
           fields == slice(row, 4, 4 + num_questions.val)
       IN IF ~Returned(form) THEN form
          ELSE
          LET responses == [i \in 1..Len(fields) |-> Response_parse(fields[i])]
          IN IF \E i \in 1..Len(responses) : ~Returned(responses[i])
             THEN Raise("ValueError")
             ELSE Ok(Scantron(Student(row[2], row[3]), form.val,
                              [i \in 1..Len(responses) |-> responses[i].val]))

\* Key.parse
Key_parse(row) ==
    IF Len(row) < 4 THEN Raise("IndexError")
    ELSE
    LET num_questions == int(row[4])
    IN IF ~Returned(num_questions) THEN num_questions
       ELSE
       LET form == Bubble_parse(row[1])
           fields == slice(row, 4, 4 + num_questions.val)
       IN IF ~Returned(form) THEN form
          ELSE
          LET questions == [i \in 1..Len(fields) |-> Rubric_parse(fields[i])]
          IN IF \E i \in 1..Len(questions) : ~Returned(questions[i])
             THEN questions[CHOOSE i \in 1..Len(questions) :
                               /\ ~Returned(questions[i])
                               /\ \A j \in 1..(i - 1) : Returned(questions[j])]
             ELSE Ok(Key(form.val, [i \in 1..Len(questions) |-> questions[i].val]))

\* ---------------------------------------------------------------- row parsing alone

RowForms == {<<"B">>, <<"2">>, <<"Z">>}
RowNames == {<<"W", " ", " ", "A">>, <<"K", "E", "Y">>}
RowSids == {<<"1">>, <<>>}
RowCounts == {<<"0">>, <<"1">>, <<"2">>, <<"3">>, <<"-", "1">>, <<"x">>}
RowFields == {<<"A">>, <<"(", "2", ",", "4", ")">>, <<"P", "A", " ", "E">>, <<"6">>}

\* rows of four fields and up to MaxFields question fields, and their prefixes
\* of fewer than four fields
Rows ==
    LET whole == {<<form, name, sid, count>> \o fields :
                     form \in RowForms, name \in RowNames, sid \in RowSids,
                     count \in RowCounts, fields \in SeqsOver(RowFields, 0, MaxFields)}
    IN whole \cup {SubSeq(row, 1, k) : row \in whole, k \in 0..3}

InitRow ==
    /\ Grader_keys = <<>>
    /\ graders = <<>>
    /\ \E row \in Rows, op \in {"Scantron.parse", "Key.parse"} :
          call = [op |-> op, row |-> row, ret |-> Pending]

ScantronParse ==
    /\ call.op = "Scantron.parse"
    /\ call.ret = Pending
    /\ call' = [call EXCEPT !.ret = Scantron_parse(call.row)]
    /\ UNCHANGED <<Grader_keys, graders>>

KeyParse ==
    /\ call.op = "Key.parse"
    /\ call.ret = Pending
    /\ call' = [call EXCEPT !.ret = Key_parse(call.row)]
    /\ UNCHANGED <<Grader_keys, graders>>

NextRow == ScantronParse \/ KeyParse

RowSpec == InitRow /\ [][NextRow]_vars

\* C4: for a row with a valid integer question count N in field [3],
\* Scantron.parse and Key.parse fail or return an object of exactly N entries,
\* entry i the parse of field [4+i]; on a row of fewer than 4+N fields the call
\* fails.
C4_ParseReturnsDeclaredCount ==
    (/\ call.op \in {"Scantron.parse", "Key.parse"}
     /\ Finished(call.ret)
     /\ Len(call.row) >= 4
     /\ Returned(int(call.row[4]))
     /\ Returned(call.ret)) =>
        LET N == int(call.row[4]).val
            entries == IF call.op = "Key.parse" THEN call.ret.val.questions
                       ELSE call.ret.val.responses
        IN /\ Len(call.row) >= 4 + N
           /\ Len(entries) = N
           /\ \A i \in 1..Len(entries) :
                 Ok(entries[i]) = IF call.op = "Key.parse"
                                  THEN Rubric_parse(call.row[4 + i])
                                  ELSE Response_parse(call.row[4 + i])

\* ---------------------------------------------------------------- the Grader's state machine

ParsedRubric(text) == Rubric_parse(text).val

\* two keys for form A, one for form B
GraderKeys ==
    {Key("A", <<ParsedRubric(<<"A">>)>>),
     Key("A", <<ParsedRubric(<<"P", "A", "B">>)>>),
     Key("B", <<ParsedRubric(<<"B">>)>>)}

\* a scantron of form A, and one of form C, which no key has
GraderScantrons ==
    {Scantron(SomeStudent, "A", <<<<"A">>>>),
     Scantron(SomeStudent, "C", <<<<"C">>>>)}

\* the class list is created empty with the class, and there is no Grader
Init ==
    /\ Grader_keys = <<>>
    /\ graders = <<>>
    /\ call = [op |-> "none"]

\* the keys property of the Grader g: self._keys is never assigned on the
\* instance, so it is the list of the class
keys_of(g) == Grader_keys

\* Grader(keys)
NewGrader(keys) ==
    /\ Len(graders) < MaxGraders
    /\ LET done == add_keys(Grader_keys, keys)
       IN /\ Grader_keys' = done.list
          /\ graders' = IF Returned(done.ret) THEN Append(graders, keys) ELSE graders
          /\ call' = [op |-> "Grader", keys |-> keys, ret |-> done.ret]

\* g.grade(scantron)
Grade(g, scantron) ==
    /\ call' = [op |-> "Grader.grade", g |-> g, scantrons |-> <<scantron>>,
                ret |-> Grader_grade(keys_of(g), scantron)]
    /\ UNCHANGED <<Grader_keys, graders>>

\* g.grade_all(scantrons)
GradeAll(g, scantrons) ==
    /\ call' = [op |-> "Grader.grade_all", g |-> g, scantrons |-> scantrons,
                ret |-> Grader_grade_all(keys_of(g), scantrons)]
    /\ UNCHANGED <<Grader_keys, graders>>

Next ==
    \/ \E keys \in SeqsOver(GraderKeys, 0, MaxKeys) : NewGrader(keys)
    \/ \E g \in 1..Len(graders), scantron \in GraderScantrons : Grade(g, scantron)
    \/ \E g \in 1..Len(graders), scantrons \in SeqsOver(GraderScantrons, 0, MaxScantrons) :
          GradeAll(g, scantrons)

Spec == Init /\ [][Next]_vars

HasTwoKeysOfOneForm(keys) ==
    \E i, j \in 1..Len(keys) : i # j /\ keys[i].form = keys[j].form

\* C1: after any sequence of Grader constructions, failed ones among them, the
\* keys a Grader shows hold at most one Key per form, and every construction
\* given two keys of one form fails with an assertion and returns no Grader.
C1_OneKeyPerForm ==
    /\ \A g \in 1..Len(graders) : ~HasTwoKeysOfOneForm(keys_of(g))
    /\ ~HasTwoKeysOfOneForm(Grader_keys)
    /\ (call.op = "Grader" /\ HasTwoKeysOfOneForm(call.keys)) => call.ret = MultipleKeys

\* a construction given two different keys for form A has failed, after a
\* Grader was constructed, and left its first key behind
C1_Witness ==
    /\ call.op = "Grader"
    /\ HasTwoKeysOfOneForm(call.keys)
    /\ call.keys[1] # call.keys[2]
    /\ call.ret = MultipleKeys
    /\ Len(graders) = 1
    /\ Len(Grader_keys) = 2
    /\ Grader_keys[2] = call.keys[1]

\* C2: for a Grader g constructed from the key list K and a Scantron s whose
\* form is the form of no key of K, g.grade(s), and g.grade_all of a list
\* holding s, fails with the 'key not found' assertion, after any earlier
\* constructions and grade calls.
C2_GradeWithoutKeyFails ==
    (/\ call.op \in {"Grader.grade", "Grader.grade_all"}
     /\ \E i \in 1..Len(call.scantrons) :
           call.scantrons[i].form \notin FormsOf(graders[call.g])) =>
        /\ ~Returned(call.ret)
        /\ call.op = "Grader.grade" => call.ret = KeyNotFound

\* C3: once Grader(K) has returned g, the keys of g are the keys of K in
\* order, and no later grade, grade_all or construction changes them.
C3_KeysAreTheKeysGiven ==
    \A g \in 1..Len(graders) : keys_of(g) = graders[g]

====
